---- MODULE Spec2Model ----
(***************************************************************************)
(* Model of the grab capture tool (akv004/grab), Electron main process:    *)
(*   - the region selection overlay manager (main/regionOverlay) together  *)
(*     with the overlay renderer (renderer/overlay) that feeds it,         *)
(*   - the capture pipeline performCapture -> capture -> exportCapture     *)
(*     (main/index, main/capture/engine, main/export/exporter).            *)
(*   - the pure helpers of main/capture/coordinates and                    *)
(*     main/capture/naming,                                                *)
(*   - the store of recent captures (main/history).                        *)
(* The specifications of the module:                                       *)
(*   Spec        region selection sessions,                                *)
(*   SpecOverlay one session and the drags of its overlay,                 *)
(*   SpecCapture one capture attempt at a time, step by step,              *)
(*   SpecFiles   captures saved to disk while the clock runs,              *)
(*   SpecTrigger the tray and shortcut handlers around performCapture,     *)
(*   SpecCoords  one call of a coordinate helper,                          *)
(*   SpecNaming  one call of a naming helper,                              *)
(*   SpecHistory the calls of the history store.                           *)
(***************************************************************************)
EXTENDS Integers, Sequences, FiniteSets, TLC

VARIABLES
    \* ---- region selection, main process (main/regionOverlay)
    overlayWindow,      \* the tracked BrowserWindow (a window id), 0 for null
    selectionResolver,  \* the session whose resolve is stored, 0 for null
    currentDisplayId,   \* display id of the most recent REGION_SELECT_DONE
    win,                \* every overlay window ever created: its lifecycle
    promise,            \* the promise showRegionSelector returned, per session
    resolveCalls,       \* how often each session's resolve was called
    nsessions,          \* showRegionSelector calls so far
    \* ---- region selection, overlay renderer (renderer/overlay), per window
    rend,               \* isSelecting, startX, startY, currentX, currentY
    ipc,                \* messages sent by the renderer, not yet handled
    discarded,          \* history (SpecOverlay only): onMouseUp dropped a selection
    \* ---- capture pipeline (main/index.ts, capture/engine.ts, export/exporter.ts)
    cpc,            \* position of the running performCapture call
    req,            \* the fullRequest of the running call
    events,         \* the side effects of the running call, in order
    metadata,       \* the CaptureMetadata assembled by capture()
    result,         \* exportCapture's ExportResult (filePath, copiedToClipboard)
    exportOutcome,  \* how exportCapture ended: "none", "returned", "thrown"
    diskOutcome,    \* how the saveToDisk branch ended: "skipped", "saved", "failed"
    clipOutcome,    \* how the clipboard branch ended: "skipped", "copied", "failed"
    captureError,   \* the message of the error caught by performCapture
    captureErrorCode,  \* the code property of that error, NoId when it has none
    enumerated,     \* the display ids screen.getAllDisplays() gave the running call
    notifications,  \* showNotification calls of the running call
    attempts,       \* performCapture calls started so far
    now,            \* the clock (new Date()) as last read, in ticks
    files,          \* history (SpecFiles only): the files written, <<path, attempt>>
    \* ---- the capture triggers of main/index.ts (SpecTrigger only)
    trigger,        \* the running handler and its position
    \* ---- the pure helpers (capture/coordinates, capture/naming)
    call,           \* the last call of a helper: its name, arguments and result
    \* ---- the history store (main/history.ts)
    instance,       \* the singleton HistoryStore was constructed
    items,          \* HistoryStore.items
    historyFile,    \* the items history.json holds, as last read or written
    historyCalls    \* calls of add and scanDirectory so far

captureVars == <<cpc, req, events, metadata, result, exportOutcome, diskOutcome,
                 clipOutcome, captureError, captureErrorCode, enumerated,
                 notifications, attempts, now, files>>

regionVars == <<overlayWindow, selectionResolver, currentDisplayId, win, promise,
                resolveCalls, nsessions, rend, ipc, discarded>>

historyVars == <<instance, items, historyFile, historyCalls>>

vars == <<regionVars, captureVars, trigger, call, historyVars>>

\* ------------------------------------------------------------------ bounds
MaxAttempts == 2

MaxSessions == 2

MaxQueue == 1

\* The last clock reading, in ticks.
MaxTime == 2

\* ------------------------------------------------------------ capture data
CaptureModes == {"full-screen", "display", "window", "region"}

NoId == "none"

DisplayIdInputs == {NoId, "1", "2"}

WindowIdInputs == {NoId, "window:7"}

RegionInputs ==
    { [x |-> 0, y |-> 0, width |-> 0, height |-> 50],
      [x |-> 2, y |-> 3, width |-> 12, height |-> 10] }

NoRegion == [x |-> 0, y |-> 0, width |-> 0, height |-> 0]

NoPath == << >>

NoMetadata == [mode |-> NoId, displayId |-> NoId, windowId |-> NoId,
               bounds |-> NoRegion, timestamp |-> 0, fileName |-> NoPath]

NoResult == [filePath |-> NoPath, copiedToClipboard |-> FALSE]

NoRequest == [mode |-> NoId, displayId |-> NoId, windowId |-> NoId,
              hasRegion |-> FALSE, region |-> NoRegion,
              saveToDisk |-> FALSE, copyToClipboard |-> FALSE]

Requests ==
    { [mode |-> m, displayId |-> d, windowId |-> w, hasRegion |-> h,
       region |-> (IF h THEN r ELSE NoRegion),
       saveToDisk |-> s, copyToClipboard |-> c] :
        m \in CaptureModes, d \in DisplayIdInputs, w \in WindowIdInputs,
        h \in BOOLEAN, r \in RegionInputs, s \in BOOLEAN, c \in BOOLEAN }

isValidRegion(region) == region.width > 0 /\ region.height > 0

\* The synchronous checks capture() makes before its first await.
RequestError(r) ==
    CASE r.mode = "display" /\ r.displayId = NoId ->
            "displayId required for display capture"
      [] r.mode = "window" /\ r.windowId = NoId ->
            "windowId required for window capture"
      [] r.mode = "region" /\ (~r.hasRegion \/ ~isValidRegion(r.region)) ->
            "Valid region required for region capture"
      [] OTHER -> NoId

\* The display id of the grabbed source: captureDisplay returns the requested
\* id, captureFullScreen the primary source's display_id.
PrimaryDisplayId == "1"

GrabbedDisplayId(r) ==
    CASE r.mode = "full-screen" -> PrimaryDisplayId
      [] r.mode = "display" -> r.displayId
      [] r.mode = "region" -> IF r.displayId # NoId THEN r.displayId ELSE PrimaryDisplayId
      [] OTHER -> NoId

\* The bounds capture() puts into the metadata.
DisplayBounds == [x |-> 0, y |-> 0, width |-> 20, height |-> 20]

CaptureBounds(r) == IF r.mode = "region" THEN r.region ELSE DisplayBounds

\* The taxonomy of error codes the shared types declare.
CaptureErrorCode ==
    {"PERMISSION_DENIED", "SOURCE_NOT_FOUND", "CAPTURE_FAILED", "EXPORT_FAILED",
     "CLIPBOARD_FAILED", "INVALID_REQUEST", "CANCELLED"}

\* new Error(message): every throw of the engine and the exporter builds a
\* plain Error, which has a message and no code property.
NewError(message) == [message |-> message, code |-> NoId]

\* The catch block of capture(): log, then `throw error`, the error it caught.
captureCatch(error) == error

\* Mutant: the catch block of performCapture only logs.
PerformCaptureCatchSilent(error) ==
    /\ captureError' = error.message
    /\ captureErrorCode' = error.code
    /\ notifications' = notifications
    /\ cpc' = "done"

\* The catch block of performCapture: log, then one notification.
PerformCaptureCatch(error) ==
    /\ captureError' = error.message
    /\ captureErrorCode' = error.code
    /\ notifications' = Append(notifications, "Capture Failed")
    /\ cpc' = "done"

\* An error thrown by exportCapture reaches performCapture's catch directly.
CaptureFailed(msg) == PerformCaptureCatch(NewError(msg))

\* An error thrown inside capture() passes capture()'s catch first.
CaptureThrows(msg) == PerformCaptureCatch(captureCatch(NewError(msg)))

\* -------------------------------------------------------- performCapture
\* performCapture up to the first await inside capture(): merge the request
\* with the preferences, validate it, and start the grab.
PerformCapture(r) ==
    /\ cpc \in {"idle", "done"}
    /\ attempts < MaxAttempts
    /\ attempts' = attempts + 1
    /\ req' = r
    /\ events' = << >>
    /\ metadata' = NoMetadata
    /\ result' = NoResult
    /\ exportOutcome' = "none"
    /\ diskOutcome' = "skipped"
    /\ clipOutcome' = "skipped"
    /\ enumerated' = {}
    /\ UNCHANGED <<now, files>>
    /\ IF RequestError(r) # NoId
         THEN /\ captureError' = captureCatch(NewError(RequestError(r))).message
              /\ captureErrorCode' = captureCatch(NewError(RequestError(r))).code
              /\ notifications' = <<"Capture Failed">>
              /\ cpc' = "done"
         ELSE /\ captureError' = NoId
              /\ captureErrorCode' = NoId
              /\ notifications' = << >>
              /\ cpc' = "grabbing"

\* The display ids screen.getAllDisplays() may return at the time of the grab.
DisplayIds == {"1", "2"}

\* capture() grabs with captureDisplay, which looks the display up first, in
\* display mode and in region mode with a displayId.
UsesCaptureDisplay(r) ==
    r.mode = "display" \/ (r.mode = "region" /\ r.displayId # NoId)

\* getDisplayById(displayId): found in the enumeration ds or undefined.
getDisplayById(ds, displayId) == IF displayId \in ds THEN displayId ELSE NoId

\* captureFullScreen / captureDisplay / captureWindow: captureDisplay throws
\* when getDisplayById finds nothing in the enumeration ds; otherwise the
\* platform grab (desktopCapturer.getSources and the search for the source)
\* ends with an image or throws.
GrabDone(ds, ok) ==
    /\ cpc = "grabbing"
    /\ IF UsesCaptureDisplay(req)
         THEN /\ enumerated' = ds
              /\ IF getDisplayById(ds, req.displayId) = NoId
                   THEN /\ events' = Append(events, "enumerate")
                        /\ CaptureThrows("Display not found")
                   ELSE /\ events' = events \o <<"enumerate", "grab">>
                        /\ IF ok
                             THEN /\ cpc' = "grabbed"
                                  /\ UNCHANGED <<captureError, captureErrorCode,
                                                 notifications>>
                             ELSE CaptureThrows("Source not found")
         ELSE /\ enumerated' = enumerated
              /\ events' = Append(events, "grab")
              /\ IF ok
                   THEN /\ cpc' = "grabbed"
                        /\ UNCHANGED <<captureError, captureErrorCode, notifications>>
                   ELSE CaptureThrows("Source not found")
    /\ UNCHANGED <<req, metadata, result, exportOutcome, diskOutcome, clipOutcome,
                   attempts, now, files>>

\* The name's target: displayId || windowId ||
\* (mode === 'region' ? 'region' : undefined), in capture() of its local
\* variables and in saveToDisk of the metadata's fields, which hold the same.
NameTarget(meta) ==
    IF meta.displayId # NoId THEN meta.displayId
    ELSE IF meta.windowId # NoId THEN meta.windowId
    ELSE IF meta.mode = "region" THEN "region"
    ELSE NoId

\* The clock ticks in one second: formatDate and formatTime keep the date and
\* the time of day down to the second and drop the milliseconds.
TicksPerSecond == 2

SecondOf(timestamp) == timestamp \div TicksPerSecond

\* generateFileName({mode, target, timestamp}): grab-<date>-<time>-<mode>
\* [-<target>].png, the date and time being those of the timestamp's second.
FileNameAt(mode, target, timestamp) == <<"grab", SecondOf(timestamp), mode, target>>

\* Mutant: the metadata is assembled from the uncropped image, the crop follows.
AssembleThenCrop(cropOk, t, t2) ==
    /\ cpc = "grabbed"
    /\ events' = events \o (IF req.mode = "region" THEN <<"assemble", "crop">>
                                                   ELSE <<"assemble">>)
    /\ metadata' = [mode |-> req.mode, displayId |-> NoId, windowId |-> NoId,
                    bounds |-> NoRegion, timestamp |-> t, fileName |-> NoPath]
    /\ now' = t2
    /\ UNCHANGED files
    /\ cpc' = "export"
    /\ UNCHANGED <<captureError, captureErrorCode, notifications>>
    /\ UNCHANGED <<req, result, exportOutcome, diskOutcome, clipOutcome, attempts,
                   enumerated>>

\* capture() after the grab: crop (region mode only), then the metadata with
\* timestamp = new Date().toISOString(), the clock reading t, which is never
\* before an earlier reading, and with fileName = generateFileName({mode,
\* target, timestamp: new Date()}), a second clock reading t2, never before t.
\* image.crop is a platform call and may throw.
CropAndAssemble(cropOk, t, t2) ==
    /\ cpc = "grabbed"
    /\ t >= now
    /\ t2 >= t
    /\ UNCHANGED files
    /\ IF req.mode = "region" /\ ~cropOk
         THEN /\ events' = Append(events, "crop")
              /\ CaptureThrows("crop failed")
              /\ UNCHANGED <<metadata, now>>
         ELSE /\ events' = (IF req.mode = "region" THEN Append(events, "crop") ELSE events)
                               \o <<"assemble">>
              /\ LET displayId == GrabbedDisplayId(req)
                     windowId == IF req.mode = "window" THEN req.windowId ELSE NoId
                     target == NameTarget([mode |-> req.mode, displayId |-> displayId,
                                           windowId |-> windowId])
                 IN  metadata' = [mode |-> req.mode,
                                  displayId |-> displayId,
                                  windowId |-> windowId,
                                  bounds |-> CaptureBounds(req),
                                  timestamp |-> t,
                                  fileName |-> FileNameAt(req.mode, target, t2)]
              /\ now' = t2
              /\ cpc' = "export"
              /\ UNCHANGED <<captureError, captureErrorCode, notifications>>
    /\ UNCHANGED <<req, result, exportOutcome, diskOutcome, clipOutcome, attempts,
                   enumerated>>

\* ----------------------------------------------------------- exportCapture
\* generateFilePath(outputFolder, {mode: metadata.mode, target, timestamp:
\* new Date(metadata.timestamp)}) in saveToDisk: the file of that name in the
\* output folder; the ISO string keeps the milliseconds of the reading.
generateFilePath(meta) == FileNameAt(meta.mode, NameTarget(meta), meta.timestamp)

\* The side effects of saveToDisk: ensureOutputDir first, the write only when
\* the directory step did not throw.
SaveToDiskEvents(dirOk) ==
    IF dirOk THEN <<"ensureDir", "writeFile">> ELSE <<"ensureDir">>

\* Mutant: the catch around saveToDisk rethrows.
DiskFailureRethrown == TRUE

\* The catch around saveToDisk in exportCapture: the failure is logged and
\* swallowed, so the clipboard branch is always next.
DiskFailurePropagates == FALSE

\* exportCapture, disk branch: if (options.saveToDisk) try { result.filePath =
\* await saveToDisk(...) } catch { warn }.
ExportSaveToDisk(dirOk, writeOk) ==
    /\ cpc = "export"
    /\ IF req.saveToDisk
         THEN /\ events' = events \o SaveToDiskEvents(dirOk)
              /\ IF dirOk /\ writeOk
                   THEN /\ result' = [result EXCEPT !.filePath = generateFilePath(metadata)]
                        /\ diskOutcome' = "saved"
                        /\ cpc' = "clipboard"
                        /\ UNCHANGED <<exportOutcome, captureError, captureErrorCode, notifications>>
                   ELSE /\ diskOutcome' = "failed"
                        /\ UNCHANGED result
                        /\ IF DiskFailurePropagates
                             THEN /\ exportOutcome' = "thrown"
                                  /\ CaptureFailed("disk save failed")
                             ELSE /\ cpc' = "clipboard"
                                  /\ UNCHANGED <<exportOutcome, captureError, captureErrorCode, notifications>>
         ELSE /\ cpc' = "clipboard"
              /\ UNCHANGED <<events, result, diskOutcome, exportOutcome, captureError,
                             captureErrorCode, notifications>>
    /\ UNCHANGED <<req, metadata, clipOutcome, attempts, enumerated, now>>

\* Mutants: the catch around copyToClipboard never rethrows / always rethrows.
ClipboardFailureSwallowed(res) == FALSE

ClipboardFailureAlwaysThrown(res) == TRUE

\* The catch around copyToClipboard: "Don't throw if we at least saved to
\* disk": if (!result.filePath) throw error.
ClipboardFailurePropagates(res) == res.filePath = NoPath

\* result.copiedToClipboard after the clipboard call: set only after
\* clipboard.writeImage returned.
CopiedAfter(clipOk) == clipOk

\* Mutant: the clipboard is written whether or not the option is on.
ExportCopyToClipboardAlways(clipOk) ==
    /\ cpc = "clipboard"
    /\ events' = Append(events, "clipboard")
    /\ result' = [result EXCEPT !.copiedToClipboard = CopiedAfter(clipOk)]
    /\ clipOutcome' = IF clipOk THEN "copied" ELSE "failed"
    /\ IF ~clipOk /\ ClipboardFailurePropagates(result)
         THEN /\ exportOutcome' = "thrown"
              /\ CaptureFailed("clipboard write failed")
         ELSE /\ cpc' = "check"
              /\ UNCHANGED <<exportOutcome, captureError, captureErrorCode, notifications>>
    /\ UNCHANGED <<req, metadata, diskOutcome, attempts, enumerated, now, files>>

\* exportCapture, clipboard branch.
ExportCopyToClipboard(clipOk) ==
    /\ cpc = "clipboard"
    /\ IF req.copyToClipboard
         THEN /\ events' = Append(events, "clipboard")
              /\ result' = [result EXCEPT !.copiedToClipboard = CopiedAfter(clipOk)]
              /\ clipOutcome' = IF clipOk THEN "copied" ELSE "failed"
              /\ IF ~clipOk /\ ClipboardFailurePropagates(result)
                   THEN /\ exportOutcome' = "thrown"
                        /\ CaptureFailed("clipboard write failed")
                   ELSE /\ cpc' = "check"
                        /\ UNCHANGED <<exportOutcome, captureError, captureErrorCode, notifications>>
         ELSE /\ cpc' = "check"
              /\ UNCHANGED <<events, result, clipOutcome, exportOutcome, captureError,
                             captureErrorCode, notifications>>
    /\ UNCHANGED <<req, metadata, diskOutcome, attempts, enumerated, now, files>>

\* Mutant: the final check is missing.
NothingExportedUnchecked(res) == FALSE

\* Mutant: the final check looks only at outputs that were attempted.
NothingExportedOfAttempted(res) ==
    /\ res.filePath = NoPath /\ ~res.copiedToClipboard
    /\ (diskOutcome = "failed" \/ clipOutcome = "failed")

\* "At least one export method must succeed".
NothingExported(res) == res.filePath = NoPath /\ ~res.copiedToClipboard

\* exportCapture's final check and return, and the rest of performCapture.
\* With a file path: the history entry (HistoryStore.add swallows its own
\* errors), then, by the preference openEditorAfterCapture, either the editor
\* window, whose loadFile may reject, or the "Capture Complete" notification.
ExportFinish(openEditorAfterCapture, editorOk) ==
    /\ cpc = "check"
    /\ IF NothingExported(result)
         THEN /\ exportOutcome' = "thrown"
              /\ CaptureFailed("Export failed: neither disk save nor clipboard copy succeeded")
         ELSE /\ exportOutcome' = "returned"
              /\ IF result.filePath # NoPath /\ openEditorAfterCapture /\ ~editorOk
                   THEN CaptureFailed("editor window failed to load")
                   ELSE /\ cpc' = "done"
                        /\ notifications' =
                              IF result.filePath # NoPath /\ ~openEditorAfterCapture
                                THEN Append(notifications, "Capture Complete")
                                ELSE notifications
                        /\ UNCHANGED <<captureError, captureErrorCode>>
    /\ UNCHANGED <<req, events, metadata, result, diskOutcome, clipOutcome, attempts,
                   enumerated, now, files>>

\* ------------------------------------------------------- region selection
Sessions == 1..MaxSessions

\* screen.getAllDisplays(): the primary display and a second one to its left,
\* so the virtual screen does not start at 0.
Displays ==
    { [id |-> "1", bounds |-> [x |-> 0, y |-> 0, width |-> 20, height |-> 20]],
      [id |-> "2", bounds |-> [x |-> -20, y |-> 0, width |-> 20, height |-> 20]] }

\* (clientX, clientY) of the mouse events the overlay renderer receives. Drags
\* between them give selections that are too flat (40 x 6), empty (a click),
\* and large enough (12 x 16 on the left display, 28 x 10 reaching from the
\* left display into the primary one).
MousePoints == {<<0, 0>>, <<12, 16>>, <<40, 6>>}

\* The mouse positions of SpecOverlay, which follows a single overlay: widths
\* and heights on both sides of the minimum size, 9 and 10 included.
OverlayPoints == {<<x, y>> : x \in {0, 9, 10, 40}, y \in {0, 9, 10}}

MinOf(S) == CHOOSE m \in S : \A v \in S : m <= v

MaxOf(S) == CHOOSE m \in S : \A v \in S : m >= v

getVirtualScreenBounds ==
    LET minX == MinOf({d.bounds.x : d \in Displays})
        minY == MinOf({d.bounds.y : d \in Displays})
        maxX == MaxOf({d.bounds.x + d.bounds.width : d \in Displays})
        maxY == MaxOf({d.bounds.y + d.bounds.height : d \in Displays})
    IN  [x |-> minX, y |-> minY, width |-> maxX - minX, height |-> maxY - minY]

\* screen.getDisplayNearestPoint, on doubled coordinates (x2 = 2x, y2 = 2y) so
\* that a centre at half a unit stays exact: the display containing the point,
\* otherwise the display at the least distance from it.
Dist2(lo, hi, p2) == IF p2 < 2 * lo THEN 2 * lo - p2 ELSE IF p2 > 2 * hi THEN p2 - 2 * hi ELSE 0

DisplayDistance(d, x2, y2) ==
    LET dx == Dist2(d.bounds.x, d.bounds.x + d.bounds.width, x2)
        dy == Dist2(d.bounds.y, d.bounds.y + d.bounds.height, y2)
    IN  dx * dx + dy * dy

DisplayContains(d, x2, y2) ==
    /\ 2 * d.bounds.x <= x2 /\ x2 < 2 * (d.bounds.x + d.bounds.width)
    /\ 2 * d.bounds.y <= y2 /\ y2 < 2 * (d.bounds.y + d.bounds.height)

getDisplayAtPoint(x2, y2) ==
    IF \E d \in Displays : DisplayContains(d, x2, y2)
      THEN CHOOSE d \in Displays : DisplayContains(d, x2, y2)
      ELSE CHOOSE d \in Displays :
               \A e \in Displays : DisplayDistance(d, x2, y2) <= DisplayDistance(e, x2, y2)

\* ---- promises
NoPromise == [state |-> "none", region |-> NoRegion, displayId |-> NoId, by |-> 0]

PendingPromise == [state |-> "pending", region |-> NoRegion, displayId |-> NoId, by |-> 0]

\* The value a promise is settled with; displayId is what handleCaptureRegion
\* reads with getCurrentDisplayId() when its await returns, and by is the
\* overlay window whose event made the call.
NullValue(w) == [state |-> "null", region |-> NoRegion, displayId |-> NoId, by |-> w]

RegionValue(r, d, w) == [state |-> "region", region |-> r, displayId |-> d, by |-> w]

\* ---- the module state of main/regionOverlay as one record
Main == [overlayWindow |-> overlayWindow, selectionResolver |-> selectionResolver,
         win |-> win, promise |-> promise, resolveCalls |-> resolveCalls]

\* if (selectionResolver) { selectionResolver(value); selectionResolver = null; }
\* A promise keeps its first settlement; later calls of resolve change nothing.
CallResolver(M, value) ==
    LET s == M.selectionResolver
    IN  IF s = 0 THEN M
        ELSE [M EXCEPT !.promise[s] = IF @.state = "pending" THEN value ELSE @,
                       !.resolveCalls[s] = @ + 1,
                       !.selectionResolver = 0]

\* overlayWindow.on('closed', ...): the handler every overlay registers. It
\* reads and writes the module-level overlayWindow and selectionResolver.
ClosedHandler(M, w) ==
    CallResolver([M EXCEPT !.win[w] = "destroyed", !.overlayWindow = 0], NullValue(w))

\* BrowserWindow.close(): the window is destroyed and 'closed' emitted either
\* before close() returns or in a later task; Electron leaves this open.
CloseWindow(M, w, sync) ==
    IF M.win[w] # "open" THEN M
    ELSE IF sync THEN ClosedHandler(M, w)
    ELSE [M EXCEPT !.win[w] = "closing"]

closeRegionSelector(M, sync) ==
    IF M.overlayWindow # 0 /\ M.win[M.overlayWindow] # "destroyed"
      THEN [CloseWindow(M, M.overlayWindow, sync) EXCEPT !.overlayWindow = 0]
      ELSE M

\* showRegionSelector for session s: close any existing overlay, then the
\* promise executor: store resolve, create the window, register 'closed'.
showRegionSelector(M, s, sync) ==
    LET M1 == IF M.overlayWindow # 0 /\ M.win[M.overlayWindow] # "destroyed"
                THEN [CloseWindow(M, M.overlayWindow, sync) EXCEPT !.overlayWindow = 0]
                ELSE M
    IN  [M1 EXCEPT !.selectionResolver = s,
                   !.promise[s] = PendingPromise,
                   !.win[s] = "open",
                   !.overlayWindow = s]

\* ---- renderer state. startX, startY, currentX, currentY are read only while
\* isSelecting is true (drawOverlay, onMouseMove and onMouseUp all test it) and
\* onMouseDown overwrites all four, so outside a drag they are kept at 0.
InitRend == [isSelecting |-> FALSE, startX |-> 0, startY |-> 0,
             currentX |-> 0, currentY |-> 0]

SetMain(M) ==
    /\ overlayWindow' = M.overlayWindow
    /\ selectionResolver' = M.selectionResolver
    /\ win' = M.win
    /\ promise' = M.promise
    /\ resolveCalls' = M.resolveCalls

\* A destroyed window's renderer is gone, with whatever it had not delivered;
\* a window that is closing takes no more input, so its selection state is
\* never read again and is kept at its initial value.
SurvivingRend(f, M) ==
    [w \in Sessions |-> IF M.win[w] \in {"closing", "destroyed"} THEN InitRend ELSE f[w]]

SurvivingIpc(f, M) ==
    [w \in Sessions |-> IF M.win[w] = "destroyed" THEN << >> ELSE f[w]]

\* ---- main process actions
ShowRegionSelector(sync) ==
    /\ nsessions < MaxSessions
    /\ LET M == showRegionSelector(Main, nsessions + 1, sync)
       IN  /\ SetMain(M)
           /\ rend' = SurvivingRend(rend, M)
           /\ ipc' = SurvivingIpc(ipc, M)
    /\ nsessions' = nsessions + 1
    /\ UNCHANGED <<currentDisplayId, captureVars>>

\* The region REGION_SELECT_DONE resolves with, and its display.
\* Mutant: the display is looked up at the origin of the selection.
SelectedDisplayAtOrigin(region) ==
    LET vb == getVirtualScreenBounds
    IN  getDisplayAtPoint(2 * (vb.x + region.x), 2 * (vb.y + region.y))

SelectedDisplay(region) ==
    LET vb == getVirtualScreenBounds
        absX == vb.x + region.x
        absY == vb.y + region.y
    IN  getDisplayAtPoint(2 * absX + region.width, 2 * absY + region.height)

RelativeRegion(region) ==
    LET vb == getVirtualScreenBounds
        display == SelectedDisplay(region)
    IN  [x |-> vb.x + region.x - display.bounds.x,
         y |-> vb.y + region.y - display.bounds.y,
         width |-> region.width, height |-> region.height]

\* Mutant: the handler resolves without storing the display's id.
RegionSelectDoneKeepingDisplayId(w, sync) ==
    /\ win[w] \in {"open", "closing"}
    /\ ipc[w] # << >>
    /\ Head(ipc[w]).type = "done"
    /\ LET region == Head(ipc[w]).region
           M1 == CallResolver(Main, RegionValue(RelativeRegion(region), currentDisplayId, w))
           M == closeRegionSelector(M1, sync)
       IN  /\ currentDisplayId' = currentDisplayId
           /\ SetMain(M)
           /\ rend' = SurvivingRend(rend, M)
           /\ ipc' = SurvivingIpc([ipc EXCEPT ![w] = Tail(@)], M)
    /\ UNCHANGED <<nsessions, captureVars>>

\* ipcMain.on(REGION_SELECT_DONE): the message at the head of window w's queue.
\* The continuation of `await showRegionSelector()' runs as a microtask, after
\* this handler and before any other event: what getCurrentDisplayId() gives
\* it is currentDisplayId as this handler leaves it.
RegionSelectDone(w, sync) ==
    /\ win[w] \in {"open", "closing"}
    /\ ipc[w] # << >>
    /\ Head(ipc[w]).type = "done"
    /\ LET region == Head(ipc[w]).region
           display == SelectedDisplay(region)
           M1 == CallResolver(Main, RegionValue(RelativeRegion(region), display.id, w))
           M == closeRegionSelector(M1, sync)
       IN  /\ currentDisplayId' = display.id
           /\ SetMain(M)
           /\ rend' = SurvivingRend(rend, M)
           /\ ipc' = SurvivingIpc([ipc EXCEPT ![w] = Tail(@)], M)
    /\ UNCHANGED <<nsessions, captureVars>>

\* ipcMain.on(REGION_SELECT_CANCEL).
RegionSelectCancel(w, sync) ==
    /\ win[w] \in {"open", "closing"}
    /\ ipc[w] # << >>
    /\ Head(ipc[w]).type = "cancel"
    /\ LET M == closeRegionSelector(CallResolver(Main, NullValue(w)), sync)
       IN  /\ SetMain(M)
           /\ rend' = SurvivingRend(rend, M)
           /\ ipc' = SurvivingIpc([ipc EXCEPT ![w] = Tail(@)], M)
    /\ UNCHANGED <<currentDisplayId, nsessions, captureVars>>

\* The 'closed' event of a window whose close() returned before it was destroyed.
OverlayClosed(w) ==
    /\ win[w] = "closing"
    /\ LET M == ClosedHandler(Main, w)
       IN  /\ SetMain(M)
           /\ rend' = SurvivingRend(rend, M)
           /\ ipc' = SurvivingIpc(ipc, M)
    /\ UNCHANGED <<currentDisplayId, nsessions, captureVars>>

\* The overlay is destroyed from outside (window manager, user): 'closed' fires.
OverlayDestroyed(w) ==
    /\ win[w] = "open"
    /\ LET M == ClosedHandler(Main, w)
       IN  /\ SetMain(M)
           /\ rend' = SurvivingRend(rend, M)
           /\ ipc' = SurvivingIpc(ipc, M)
    /\ UNCHANGED <<currentDisplayId, nsessions, captureVars>>

\* ---- renderer actions (renderer/overlay), on an open overlay w
MIN_SIZE == 10

\* Messages sent by the renderers and not yet handled by the main process.
RECURSIVE InFlightUpTo(_)
InFlightUpTo(n) == IF n = 0 THEN 0 ELSE Len(ipc[n]) + InFlightUpTo(n - 1)

InFlight == InFlightUpTo(MaxSessions)

Abs(n) == IF n < 0 THEN -n ELSE n

MinInt(a, b) == IF a < b THEN a ELSE b

\* The selection rectangle onMouseUp computes.
SelectionRect(r) ==
    [x |-> MinInt(r.startX, r.currentX), y |-> MinInt(r.startY, r.currentY),
     width |-> Abs(r.currentX - r.startX), height |-> Abs(r.currentY - r.startY)]

\* Mutant: the selection is dropped only when both sides are too small.
TooSmallBoth(w, h) == w < MIN_SIZE /\ h < MIN_SIZE

\* if (w < 10 || h < 10) return;
TooSmall(w, h) == w < MIN_SIZE \/ h < MIN_SIZE

CancelMsg == [type |-> "cancel", region |-> NoRegion]

DoneMsg(region) == [type |-> "done", region |-> region]

\* cancelSelection(): isSelecting = false; send REGION_SELECT_CANCEL.
cancelSelection(w) ==
    /\ InFlight < MaxQueue
    /\ rend' = [rend EXCEPT ![w] = InitRend]
    /\ ipc' = [ipc EXCEPT ![w] = Append(@, CancelMsg)]

\* onMouseDown: any button but the primary one cancels.
MouseDown(w, button, x, y) ==
    /\ win[w] = "open"
    /\ IF button # 0
         THEN cancelSelection(w)
         ELSE /\ rend' = [rend EXCEPT ![w] = [isSelecting |-> TRUE, startX |-> x, startY |-> y,
                                              currentX |-> x, currentY |-> y]]
              /\ UNCHANGED ipc
    /\ UNCHANGED <<overlayWindow, selectionResolver, currentDisplayId, win, promise,
                   resolveCalls, nsessions, captureVars>>

\* onMouseMove: ignored unless selecting.
MouseMove(w, x, y) ==
    /\ win[w] = "open"
    /\ rend[w].isSelecting
    /\ rend' = [rend EXCEPT ![w].currentX = x, ![w].currentY = y]
    /\ UNCHANGED <<ipc, overlayWindow, selectionResolver, currentDisplayId, win, promise,
                   resolveCalls, nsessions, captureVars>>

\* onMouseUp: ignored unless selecting; a selection under the minimum size is
\* dropped, any other is sent with REGION_SELECT_DONE.
MouseUp(w) ==
    /\ win[w] = "open"
    /\ rend[w].isSelecting
    /\ rend' = [rend EXCEPT ![w] = InitRend]
    /\ LET sel == SelectionRect(rend[w])
       IN  IF TooSmall(sel.width, sel.height)
             THEN UNCHANGED ipc
             ELSE /\ InFlight < MaxQueue
                  /\ ipc' = [ipc EXCEPT ![w] = Append(@, DoneMsg(sel))]
    /\ UNCHANGED <<overlayWindow, selectionResolver, currentDisplayId, win, promise,
                   resolveCalls, nsessions, captureVars>>

\* onKeyDown: Escape cancels, other keys do nothing.
KeyDown(w, key) ==
    /\ win[w] = "open"
    /\ key = "Escape"
    /\ cancelSelection(w)
    /\ UNCHANGED <<overlayWindow, selectionResolver, currentDisplayId, win, promise,
                   resolveCalls, nsessions, captureVars>>

\* ------------------------------------------------------------ specifications
InitRegion ==
    /\ overlayWindow = 0
    /\ selectionResolver = 0
    /\ currentDisplayId = NoId
    /\ win = [w \in Sessions |-> "none"]
    /\ promise = [s \in Sessions |-> NoPromise]
    /\ resolveCalls = [s \in Sessions |-> 0]
    /\ nsessions = 0
    /\ rend = [w \in Sessions |-> InitRend]
    /\ ipc = [w \in Sessions |-> << >>]
    /\ discarded = [w \in Sessions |-> FALSE]

InitCapture ==
    /\ cpc = "idle"
    /\ req = NoRequest
    /\ events = << >>
    /\ metadata = NoMetadata
    /\ result = NoResult
    /\ exportOutcome = "none"
    /\ diskOutcome = "skipped"
    /\ clipOutcome = "skipped"
    /\ captureError = NoId
    /\ captureErrorCode = NoId
    /\ enumerated = {}
    /\ notifications = << >>
    /\ attempts = 0
    /\ now = 0
    /\ files = {}

\* No handler of a capture trigger is running.
NoTrigger == [handler |-> NoId, pc |-> "idle"]

\* No helper was called yet.
NoCall == [fn |-> NoId]

\* let instance: HistoryStore | null = null.
InitHistory ==
    /\ instance = FALSE
    /\ items = << >>
    /\ historyFile = << >>
    /\ historyCalls = 0

Init == InitRegion /\ InitCapture /\ trigger = NoTrigger /\ call = NoCall /\ InitHistory

Next ==
    \/ \E sync \in BOOLEAN : ShowRegionSelector(sync) /\ UNCHANGED <<discarded, trigger, call, historyVars>>
    \/ \E w \in Sessions, sync \in BOOLEAN : RegionSelectDone(w, sync) /\ UNCHANGED <<discarded, trigger, call, historyVars>>
    \/ \E w \in Sessions, sync \in BOOLEAN : RegionSelectCancel(w, sync) /\ UNCHANGED <<discarded, trigger, call, historyVars>>
    \/ \E w \in Sessions : OverlayClosed(w) /\ UNCHANGED <<discarded, trigger, call, historyVars>>
    \/ \E w \in Sessions : OverlayDestroyed(w) /\ UNCHANGED <<discarded, trigger, call, historyVars>>
    \/ \E w \in Sessions, b \in {0, 2}, p \in MousePoints :
           MouseDown(w, b, p[1], p[2]) /\ UNCHANGED <<discarded, trigger, call, historyVars>>
    \/ \E w \in Sessions, p \in MousePoints : MouseMove(w, p[1], p[2]) /\ UNCHANGED <<discarded, trigger, call, historyVars>>
    \/ \E w \in Sessions : MouseUp(w) /\ UNCHANGED <<discarded, trigger, call, historyVars>>
    \/ \E w \in Sessions, key \in {"Escape"} : KeyDown(w, key) /\ UNCHANGED <<discarded, trigger, call, historyVars>>

Spec == Init /\ [][Next]_vars

\* One overlay from trigger to its end, with every gesture of OverlayPoints;
\* discarded[w] records that onMouseUp dropped a too small selection on w.
DroppedBy(w) ==
    LET sel == SelectionRect(rend[w])
    IN  [discarded EXCEPT ![w] = @ \/ sel.width < MIN_SIZE \/ sel.height < MIN_SIZE]

NextOverlay ==
    \/ \E sync \in BOOLEAN :
           nsessions = 0 /\ ShowRegionSelector(sync) /\ UNCHANGED <<discarded, trigger, call, historyVars>>
    \/ \E sync \in BOOLEAN : RegionSelectDone(1, sync) /\ UNCHANGED <<discarded, trigger, call, historyVars>>
    \/ \E sync \in BOOLEAN : RegionSelectCancel(1, sync) /\ UNCHANGED <<discarded, trigger, call, historyVars>>
    \/ OverlayClosed(1) /\ UNCHANGED <<discarded, trigger, call, historyVars>>
    \/ OverlayDestroyed(1) /\ UNCHANGED <<discarded, trigger, call, historyVars>>
    \/ \E b \in {0, 2}, p \in OverlayPoints : MouseDown(1, b, p[1], p[2]) /\ UNCHANGED <<discarded, trigger, call, historyVars>>
    \/ \E p \in OverlayPoints : MouseMove(1, p[1], p[2]) /\ UNCHANGED <<discarded, trigger, call, historyVars>>
    \/ MouseUp(1) /\ discarded' = DroppedBy(1) /\ UNCHANGED <<trigger, call, historyVars>>
    \/ \E key \in {"Escape"} : KeyDown(1, key) /\ UNCHANGED <<discarded, trigger, call, historyVars>>

SpecOverlay == Init /\ [][NextOverlay]_vars

NextCapture ==
    \/ \E r \in Requests : PerformCapture(r) /\ UNCHANGED <<regionVars, trigger, call, historyVars>>
    \/ \E ds \in SUBSET DisplayIds, ok \in BOOLEAN :
           GrabDone(ds, ok) /\ UNCHANGED <<regionVars, trigger, call, historyVars>>
    \/ \E ok \in BOOLEAN :
           CropAndAssemble(ok, now, now) /\ UNCHANGED <<regionVars, trigger, call, historyVars>>
    \/ \E dirOk \in BOOLEAN, writeOk \in BOOLEAN :
           ExportSaveToDisk(dirOk, writeOk) /\ UNCHANGED <<regionVars, trigger, files, call, historyVars>>
    \/ \E ok \in BOOLEAN : ExportCopyToClipboard(ok) /\ UNCHANGED <<regionVars, trigger, call, historyVars>>
    \/ \E openEditor \in BOOLEAN, editorOk \in BOOLEAN :
           ExportFinish(openEditor, editorOk) /\ UNCHANGED <<regionVars, trigger, call, historyVars>>

SpecCapture == Init /\ [][NextCapture]_vars

\* Captures saved to disk one after the other, with the clock running between
\* them; files records what fs.writeFileSync wrote and which attempt wrote it.
FileRequests ==
    {r \in Requests : r.saveToDisk /\ ~r.copyToClipboard /\ r.windowId = NoId
                          /\ r.displayId # "2" /\ RequestError(r) = NoId}

WrittenBy(attempt) ==
    IF diskOutcome' = "saved" THEN files \cup {<<result'.filePath, attempt>>} ELSE files

NextFiles ==
    \/ \E r \in FileRequests : PerformCapture(r) /\ UNCHANGED <<regionVars, trigger, call, historyVars>>
    \/ \E ds \in {DisplayIds}, ok \in BOOLEAN :
           GrabDone(ds, ok) /\ UNCHANGED <<regionVars, trigger, call, historyVars>>
    \/ \E ok \in BOOLEAN, t \in 0..MaxTime, t2 \in 0..MaxTime :
           CropAndAssemble(ok, t, t2) /\ UNCHANGED <<regionVars, trigger, call, historyVars>>
    \/ \E dirOk \in BOOLEAN, writeOk \in BOOLEAN :
           /\ ExportSaveToDisk(dirOk, writeOk)
           /\ files' = WrittenBy(attempts)
           /\ UNCHANGED <<regionVars, trigger, call, historyVars>>
    \/ \E ok \in BOOLEAN : ExportCopyToClipboard(ok) /\ UNCHANGED <<regionVars, trigger, call, historyVars>>
    \/ \E openEditor \in BOOLEAN, editorOk \in BOOLEAN :
           ExportFinish(openEditor, editorOk) /\ UNCHANGED <<regionVars, trigger, call, historyVars>>

SpecFiles == Init /\ [][NextFiles]_vars

\* ------------------------------------------------- the capture triggers
\* The request a handler passes to performCapture, merged with the
\* preferences saveToDisk and copyToClipboard.
TriggerRequest(mode, displayId, windowId, hasRegion, region, save, copy) ==
    [mode |-> mode, displayId |-> displayId, windowId |-> windowId,
     hasRegion |-> hasRegion, region |-> region,
     saveToDisk |-> save, copyToClipboard |-> copy]

At(handler, pc) == [handler |-> handler, pc |-> pc]

\* handleCaptureRegion up to its await: region = await showRegionSelector().
HandleCaptureRegion(sync) ==
    /\ trigger = NoTrigger
    /\ nsessions = 0
    /\ ShowRegionSelector(sync)
    /\ trigger' = At("region", "awaiting")

\* handleCaptureRegion after the await: with a region, getCurrentDisplayId()
\* and performCapture({mode: 'region', region, displayId}); with null only a
\* log line.
RegionSelectorSettled(save, copy) ==
    /\ trigger = At("region", "awaiting")
    /\ promise[1].state \in {"null", "region"}
    /\ IF promise[1].state = "region"
         THEN /\ PerformCapture(TriggerRequest("region", currentDisplayId, NoId, TRUE,
                                               promise[1].region, save, copy))
              /\ trigger' = At("region", "capturing")
         ELSE /\ trigger' = At("region", "returned")
              /\ UNCHANGED captureVars
    /\ UNCHANGED regionVars

\* handleCaptureWindow: getWindowSources() throws (caught by the handler's own
\* catch: one notification), returns nothing (one notification), or the
\* dialog is cancelled (silent), or a window is picked and captured.
HandleCaptureWindow(outcome, save, copy) ==
    /\ trigger = NoTrigger
    /\ CASE outcome = "throws" ->
              /\ notifications' = Append(notifications, "Window Capture Failed")
              /\ trigger' = At("window", "returned")
              /\ UNCHANGED <<cpc, req, events, metadata, result, exportOutcome,
                             diskOutcome, clipOutcome, captureError, captureErrorCode,
                             enumerated, attempts, now, files>>
         [] outcome = "empty" ->
              /\ notifications' = Append(notifications, "No Windows")
              /\ trigger' = At("window", "returned")
              /\ UNCHANGED <<cpc, req, events, metadata, result, exportOutcome,
                             diskOutcome, clipOutcome, captureError, captureErrorCode,
                             enumerated, attempts, now, files>>
         [] outcome = "cancel" ->
              /\ trigger' = At("window", "returned")
              /\ UNCHANGED captureVars
         [] OTHER ->
              /\ PerformCapture(TriggerRequest("window", NoId, "window:7", FALSE,
                                               NoRegion, save, copy))
              /\ trigger' = At("window", "capturing")
    /\ UNCHANGED regionVars

\* handleCaptureFullScreen: with several displays a dialog picks one display
\* (display mode) or the primary one (full-screen mode).
HandleCaptureFullScreen(displayId, save, copy) ==
    /\ trigger = NoTrigger
    /\ PerformCapture(TriggerRequest(IF displayId = NoId THEN "full-screen" ELSE "display",
                                     displayId, NoId, FALSE, NoRegion, save, copy))
    /\ trigger' = At("full-screen", "capturing")
    /\ UNCHANGED regionVars

\* await performCapture(...) returned: the handler ends.
HandlerReturns ==
    /\ trigger.pc = "capturing"
    /\ cpc = "done"
    /\ trigger' = At(trigger.handler, "returned")
    /\ UNCHANGED <<regionVars, captureVars>>

NextTrigger ==
    \/ \E sync \in BOOLEAN : HandleCaptureRegion(sync) /\ UNCHANGED <<discarded, call, historyVars>>
    \/ \E save \in BOOLEAN, copy \in BOOLEAN :
           RegionSelectorSettled(save, copy) /\ UNCHANGED <<call, historyVars>>
    \/ \E outcome \in {"throws", "empty", "cancel", "pick"},
          save \in BOOLEAN, copy \in BOOLEAN :
           HandleCaptureWindow(outcome, save, copy) /\ UNCHANGED <<call, historyVars>>
    \/ \E d \in {NoId} \cup DisplayIds, save \in BOOLEAN, copy \in BOOLEAN :
           HandleCaptureFullScreen(d, save, copy) /\ UNCHANGED <<call, historyVars>>
    \/ HandlerReturns /\ UNCHANGED <<call, historyVars>>
    \/ \E sync \in BOOLEAN : RegionSelectDone(1, sync) /\ UNCHANGED <<discarded, trigger, call, historyVars>>
    \/ \E sync \in BOOLEAN : RegionSelectCancel(1, sync) /\ UNCHANGED <<discarded, trigger, call, historyVars>>
    \/ OverlayClosed(1) /\ UNCHANGED <<discarded, trigger, call, historyVars>>
    \/ OverlayDestroyed(1) /\ UNCHANGED <<discarded, trigger, call, historyVars>>
    \/ \E b \in {0, 2}, p \in MousePoints :
           MouseDown(1, b, p[1], p[2]) /\ UNCHANGED <<discarded, trigger, call, historyVars>>
    \/ \E p \in MousePoints : MouseMove(1, p[1], p[2]) /\ UNCHANGED <<discarded, trigger, call, historyVars>>
    \/ MouseUp(1) /\ UNCHANGED <<discarded, trigger, call, historyVars>>
    \/ \E key \in {"Escape"} : KeyDown(1, key) /\ UNCHANGED <<discarded, trigger, call, historyVars>>
    \/ \E ds \in SUBSET DisplayIds, ok \in BOOLEAN :
           GrabDone(ds, ok) /\ UNCHANGED <<regionVars, trigger, call, historyVars>>
    \/ \E ok \in BOOLEAN :
           CropAndAssemble(ok, now, now) /\ UNCHANGED <<regionVars, trigger, call, historyVars>>
    \/ \E dirOk \in BOOLEAN, writeOk \in BOOLEAN :
           ExportSaveToDisk(dirOk, writeOk) /\ UNCHANGED <<regionVars, trigger, files, call, historyVars>>
    \/ \E ok \in BOOLEAN : ExportCopyToClipboard(ok) /\ UNCHANGED <<regionVars, trigger, call, historyVars>>
    \/ \E openEditor \in BOOLEAN, editorOk \in BOOLEAN :
           ExportFinish(openEditor, editorOk) /\ UNCHANGED <<regionVars, trigger, call, historyVars>>

SpecTrigger == Init /\ [][NextTrigger]_vars

\* ------------------------------------------------- capture/coordinates
\* The bounds of the displays the helpers are called with.
DisplayRects ==
    { [x |-> x, y |-> y, width |-> size[1], height |-> size[2]] :
        x \in {-20, 0, 20}, y \in {-10, 0}, size \in {<<10, 10>>, <<20, 30>>} }

\* The most displays one enumeration returns.
MaxDisplays == 2

\* The enumerations of at most n displays.
RECURSIVE DisplaySetsUpTo(_)
DisplaySetsUpTo(n) ==
    IF n = 0 THEN {{}}
    ELSE LET fewer == DisplaySetsUpTo(n - 1)
         IN  fewer \cup {ds \cup {d} : ds \in fewer, d \in DisplayRects}

DisplaySets == DisplaySetsUpTo(MaxDisplays)

\* Mutant: width and height are taken to be the far edges.
getVirtualScreenBoundsFromOrigin(displays, primary) ==
    IF displays = {}
      THEN [x |-> 0, y |-> 0, width |-> primary.width, height |-> primary.height]
      ELSE LET minX == MinOf({d.x : d \in displays})
               minY == MinOf({d.y : d \in displays})
               maxX == MaxOf({d.x + d.width : d \in displays})
               maxY == MaxOf({d.y + d.height : d \in displays})
           IN  [x |-> minX, y |-> minY, width |-> maxX, height |-> maxY]

\* getVirtualScreenBounds of capture/coordinates, over the bounds of
\* getAllDisplays(): without displays the primary display's size at (0, 0),
\* otherwise the fold of min and max over every display.
getVirtualScreenBoundsOf(displays, primary) ==
    IF displays = {}
      THEN [x |-> 0, y |-> 0, width |-> primary.width, height |-> primary.height]
      ELSE LET minX == MinOf({d.x : d \in displays})
               minY == MinOf({d.y : d \in displays})
               maxX == MaxOf({d.x + d.width : d \in displays})
               maxY == MaxOf({d.y + d.height : d \in displays})
           IN  [x |-> minX, y |-> minY, width |-> maxX - minX, height |-> maxY - minY]

\* The helpers keep no state: a behaviour calls one of them once.
CallGetVirtualScreenBounds(displays, primary) ==
    /\ call = NoCall
    /\ call' = [fn |-> "getVirtualScreenBounds", displays |-> displays,
                out |-> getVirtualScreenBoundsOf(displays, primary)]
    /\ UNCHANGED <<regionVars, captureVars, trigger, historyVars>>

\* A JavaScript number that may be infinite: inf is the sign of an infinity,
\* 0 for the finite number n.
Finite(n) == [inf |-> 0, n |-> n]

Infinity == [inf |-> 1, n |-> 0]

MinusInfinity == [inf |-> -1, n |-> 0]

\* a < b for such numbers.
Less(a, b) ==
    IF a.inf # b.inf THEN a.inf < b.inf ELSE a.inf = 0 /\ a.n < b.n

MathMin(a, b) == IF Less(b, a) THEN b ELSE a

MathMax(a, b) == IF Less(a, b) THEN b ELSE a

\* a - b where not both are infinite with the same sign (that is NaN, which
\* the fold below never produces: its maxima are never above its minima's
\* infinity and never below its own).
Minus(a, b) ==
    IF a.inf # 0 THEN a
    ELSE IF b.inf # 0 THEN [inf |-> -b.inf, n |-> 0]
    ELSE Finite(a.n - b.n)

\* The loop of getVirtualScreenBounds in main/regionOverlay over the
\* displays not yet visited.
RECURSIVE BoundsFold(_, _)
BoundsFold(displays, acc) ==
    IF displays = {} THEN acc
    ELSE LET d == CHOOSE d \in displays : TRUE
         IN  BoundsFold(displays \ {d},
                 [minX |-> MathMin(acc.minX, Finite(d.x)),
                  minY |-> MathMin(acc.minY, Finite(d.y)),
                  maxX |-> MathMax(acc.maxX, Finite(d.x + d.width)),
                  maxY |-> MathMax(acc.maxY, Finite(d.y + d.height))])

\* getVirtualScreenBounds of main/regionOverlay for any enumeration: the
\* fold starts at Infinity and -Infinity and there is no case for no display.
overlayVirtualScreenBounds(displays) ==
    LET m == BoundsFold(displays, [minX |-> Infinity, minY |-> Infinity,
                                   maxX |-> MinusInfinity, maxY |-> MinusInfinity])
    IN  [x |-> m.minX, y |-> m.minY,
         width |-> Minus(m.maxX, m.minX), height |-> Minus(m.maxY, m.minY)]

CallOverlayVirtualScreenBounds(displays) ==
    /\ call = NoCall
    /\ call' = [fn |-> "regionOverlay.getVirtualScreenBounds", displays |-> displays,
                out |-> overlayVirtualScreenBounds(displays)]
    /\ UNCHANGED <<regionVars, captureVars, trigger, historyVars>>

\* Scale factors are the fractions num/den with den > 0: below one, one, the
\* usual HiDPI factors 1.25, 1.5 and 2, and 3.
ScaleFactors ==
    { [num |-> 1, den |-> 4], [num |-> 1, den |-> 2], [num |-> 1, den |-> 1],
      [num |-> 5, den |-> 4], [num |-> 3, den |-> 2], [num |-> 2, den |-> 1],
      [num |-> 3, den |-> 1] }

\* The rectangles that are scaled.
ScaledRects ==
    { [x |-> x, y |-> y, width |-> w, height |-> h] :
        x \in {-5, -2, 0, 1, 2, 3, 7}, y \in {-3, 2}, w \in {1, 2, 3, 10}, h \in {1, 9} }

\* Math.round of the fraction p/q, q > 0: the nearest integer, a half going
\* up (towards plus infinity), that is floor(p/q + 1/2).
MathRound(p, q) == (2 * p + q) \div (2 * q)

normalizeToImageCoords(bounds, scaleFactor) ==
    [x      |-> MathRound(bounds.x * scaleFactor.num, scaleFactor.den),
     y      |-> MathRound(bounds.y * scaleFactor.num, scaleFactor.den),
     width  |-> MathRound(bounds.width * scaleFactor.num, scaleFactor.den),
     height |-> MathRound(bounds.height * scaleFactor.num, scaleFactor.den)]

\* Mutant: the way back multiplies by the scale factor again.
normalizeToScreenCoordsScaledUp(bounds, scaleFactor) ==
    normalizeToImageCoords(bounds, scaleFactor)

normalizeToScreenCoords(bounds, scaleFactor) ==
    [x      |-> MathRound(bounds.x * scaleFactor.den, scaleFactor.num),
     y      |-> MathRound(bounds.y * scaleFactor.den, scaleFactor.num),
     width  |-> MathRound(bounds.width * scaleFactor.den, scaleFactor.num),
     height |-> MathRound(bounds.height * scaleFactor.den, scaleFactor.num)]

\* normalizeToImageCoords, then normalizeToScreenCoords on its result.
CallNormalizeBothWays(bounds, scaleFactor) ==
    /\ call = NoCall
    /\ LET image == normalizeToImageCoords(bounds, scaleFactor)
       IN  call' = [fn |-> "normalizeToScreenCoords", bounds |-> bounds,
                    scaleFactor |-> scaleFactor, image |-> image,
                    out |-> normalizeToScreenCoords(image, scaleFactor)]
    /\ UNCHANGED <<regionVars, captureVars, trigger, historyVars>>

\* The regions that are clamped: inside, across each edge of, and outside
\* the displays of ClampDisplays.
ClampRegions ==
    { [x |-> x, y |-> y, width |-> w, height |-> h] :
        x \in {-30, -20, -5, 0, 5, 15, 20, 30}, y \in {-5, 5, 25},
        w \in {1, 10, 50}, h \in {1, 10, 40} }

ClampDisplays ==
    { [x |-> x, y |-> y, width |-> 20, height |-> 10] : x \in {-20, 0}, y \in {0, 10} }

MaxInt(a, b) == IF a > b THEN a ELSE b

\* Mutant: the size is limited by the display's size, not by the room
\* that is left of the clamped origin.
clampRegionToDisplaySize(region, displayBounds) ==
    LET x == MaxInt(displayBounds.x,
                    MinInt(region.x, displayBounds.x + displayBounds.width))
        y == MaxInt(displayBounds.y,
                    MinInt(region.y, displayBounds.y + displayBounds.height))
        width  == MinInt(region.width, displayBounds.width)
        height == MinInt(region.height, displayBounds.height)
    IN  [x |-> x, y |-> y, width |-> width, height |-> height]

clampRegionToDisplay(region, displayBounds) ==
    LET x == MaxInt(displayBounds.x,
                    MinInt(region.x, displayBounds.x + displayBounds.width))
        y == MaxInt(displayBounds.y,
                    MinInt(region.y, displayBounds.y + displayBounds.height))
        width  == MinInt(region.width, displayBounds.x + displayBounds.width - x)
        height == MinInt(region.height, displayBounds.y + displayBounds.height - y)
    IN  [x |-> x, y |-> y, width |-> width, height |-> height]

CallClampRegionToDisplay(region, displayBounds) ==
    /\ call = NoCall
    /\ call' = [fn |-> "clampRegionToDisplay", region |-> region,
                displayBounds |-> displayBounds,
                out |-> clampRegionToDisplay(region, displayBounds)]
    /\ UNCHANGED <<regionVars, captureVars, trigger, historyVars>>

NextCoords ==
    \/ \E ds \in DisplaySets, primary \in DisplayRects :
           CallGetVirtualScreenBounds(ds, primary)
    \/ \E ds \in DisplaySets : CallOverlayVirtualScreenBounds(ds)
    \/ \E region \in ClampRegions, displayBounds \in ClampDisplays :
           CallClampRegionToDisplay(region, displayBounds)
    \/ \E r \in ScaledRects, scaleFactor \in ScaleFactors :
           CallNormalizeBothWays(r, scaleFactor)

SpecCoords == Init /\ [][NextCoords]_vars

\* ------------------------------------------------------ capture/naming
\* A string is a sequence of characters.  The characters the names are made
\* of: a letter, two of the illegal punctuation characters, a control
\* character below U+0020, the tab (a control character and white space),
\* the space, the dash and DEL (U+007F).
NameChars == {"a", "<", "/", "U+0001", "U+0009", " ", "-", "U+007F"}

\* The longest target string.
MaxLen == 3

RECURSIVE StringsUpTo(_)
StringsUpTo(n) ==
    IF n = 0 THEN {<<>>}
    ELSE LET shorter == StringsUpTo(n - 1)
         IN  shorter \cup {Append(str, c) : str \in shorter, c \in NameChars}

\* The class [<>:"/\\|?*\x00-\x1f] of the first replace.
IllegalChars ==
    {"<", ">", ":", "\"", "/", "\\", "|", "?", "*"} \cup {"U+0001", "U+0009"}

\* The class \s of the second replace.
WhiteSpace == {" ", "U+0009"}

\* str.replace(/[class]/g, '')
RemoveAll(str, class) == SelectSeq(str, LAMBDA c : c \notin class)

\* str.replace(/[class]+/g, by): every maximal run of characters of the class
\* becomes one `by'.  The characters outside the class stay, and of each run
\* its last character stays as `by'.
ReplaceRuns(str, class, by) ==
    LET positions == [i \in 1..Len(str) |-> i]
        kept == SelectSeq(positions,
                          LAMBDA i : \/ str[i] \notin class
                                     \/ i = Len(str)
                                     \/ str[i + 1] \notin class)
    IN  [j \in 1..Len(kept) |-> IF str[kept[j]] \in class THEN by ELSE str[kept[j]]]

\* str.replace(/^[class]+/, '')
TrimStart(str, class) ==
    LET outside == {i \in 1..Len(str) : str[i] \notin class}
    IN  IF outside = {} THEN <<>> ELSE SubSeq(str, MinOf(outside), Len(str))

\* str.replace(/[class]+$/, '')
TrimEnd(str, class) ==
    LET outside == {i \in 1..Len(str) : str[i] \notin class}
    IN  IF outside = {} THEN <<>> ELSE SubSeq(str, 1, MaxOf(outside))

\* The limit of substring(0, 100).
MaxNameLength == 100

\* str.substring(0, n)
Substring(str, n) == SubSeq(str, 1, MinInt(Len(str), n))

\* Mutant: the illegal characters are not removed.
sanitizeFileNameKeepingIllegal(name) ==
    LET dashed    == ReplaceRuns(name, WhiteSpace, "-")
        collapsed == ReplaceRuns(dashed, {"-"}, "-")
        trimmed   == TrimEnd(TrimStart(collapsed, {"-"}), {"-"})
    IN  Substring(trimmed, MaxNameLength)

sanitizeFileName(name) ==
    LET legal     == RemoveAll(name, IllegalChars)
        dashed    == ReplaceRuns(legal, WhiteSpace, "-")
        collapsed == ReplaceRuns(dashed, {"-"}, "-")
        trimmed   == TrimEnd(TrimStart(collapsed, {"-"}), {"-"})
    IN  Substring(trimmed, MaxNameLength)

\* Names around the limit: one character less than the limit, followed by
\* any of the short strings.
NamesAtLimit ==
    LET prefix == [i \in 1..(MaxNameLength - 1) |-> "a"]
    IN  {prefix \o str : str \in StringsUpTo(MaxLen)}

CallSanitizeFileName(name) ==
    /\ call = NoCall
    /\ call' = [fn |-> "sanitizeFileName", name |-> name, out |-> sanitizeFileName(name)]
    /\ UNCHANGED <<regionVars, captureVars, trigger, historyVars>>

\* An optional argument: absent, or given with a value.
Absent == [given |-> FALSE]

Given(value) == [given |-> TRUE, value |-> value]

\* A Date is an instant, here its fields in UTC, together with what
\* getTimezoneOffset() returns for it in the environment the program runs
\* in: the minutes UTC is ahead of local time.  The instants are days of
\* January 2026 from which local time does not leave the month.
Dates ==
    { [year |-> 2026, month |-> 0, date |-> d, hours |-> h, minutes |-> 30,
       seconds |-> sec, timezoneOffset |-> tz] :
        d \in {5, 15}, h \in {0, 10, 23}, sec \in {9, 45},
        tz \in {600, 0, -330, -840} }

\* The minutes of local time since midnight (UTC) of the Date's day.
LocalMinutes(date) == date.hours * 60 + date.minutes - date.timezoneOffset

getFullYear(date) == date.year

getMonth(date) == date.month

getDate(date) == date.date + (LocalMinutes(date) \div 1440)

getHours(date) == (LocalMinutes(date) % 1440) \div 60

getMinutes(date) == LocalMinutes(date) % 60

getSeconds(date) == date.seconds

DigitChars == <<"0", "1", "2", "3", "4", "5", "6", "7", "8", "9">>

\* String(n) of a natural number: its decimal digits, no leading zero.
RECURSIVE String(_)
String(n) ==
    IF n < 10 THEN <<DigitChars[n + 1]>>
    ELSE Append(String(n \div 10), DigitChars[(n % 10) + 1])

\* str.padStart(targetLength, '0')
RECURSIVE padStart(_, _)
padStart(str, targetLength) ==
    IF Len(str) >= targetLength THEN str ELSE padStart(<<"0">> \o str, targetLength)

formatDate(date) ==
    String(getFullYear(date)) \o padStart(String(getMonth(date) + 1), 2)
        \o padStart(String(getDate(date)), 2)

formatTime(date) ==
    padStart(String(getHours(date)), 2) \o padStart(String(getMinutes(date)), 2)
        \o padStart(String(getSeconds(date)), 2)

getModeLabel(mode) ==
    CASE mode = "full-screen" -> <<"f", "u", "l", "l", "s", "c", "r", "e", "e", "n">>
      [] mode = "display"     -> <<"d", "i", "s", "p", "l", "a", "y">>
      [] mode = "window"      -> <<"w", "i", "n", "d", "o", "w">>
      [] mode = "region"      -> <<"r", "e", "g", "i", "o", "n">>
      [] OTHER                -> <<"c", "a", "p", "t", "u", "r", "e">>

\* The targets: none, the empty string, strings that sanitizeFileName
\* empties, 'Display-1', 'My Window' and 'a/<b'.
Targets ==
    { Absent, Given(<<>>), Given(<<" ">>), Given(<<"-", "/">>),
      Given(<<"D", "i", "s", "p", "l", "a", "y", "-", "1">>),
      Given(<<"M", "y", " ", "W", "i", "n", "d", "o", "w">>),
      Given(<<"a", "/", "<", "b">>) }

Extensions == { Absent, Given(<<"j", "p", "e", "g">>) }

FileNameOptions ==
    [mode : CaptureModes, target : Targets, extension : Extensions, timestamp : Dates]

\* Mutant: the sanitized target is appended even when it is empty.
generateFileNameWithAnyTarget(options) ==
    LET extension == IF options.extension.given THEN options.extension.value
                     ELSE <<"p", "n", "g">>
        fileName  == <<"g", "r", "a", "b", "-">> \o formatDate(options.timestamp)
                         \o <<"-">> \o formatTime(options.timestamp)
                         \o <<"-">> \o getModeLabel(options.mode)
        named     == IF options.target.given /\ options.target.value # <<>>
                       THEN fileName \o <<"-">> \o sanitizeFileName(options.target.value)
                       ELSE fileName
    IN  named \o <<".">> \o extension

\* `if (target)' is false for undefined and for the empty string.
generateFileName(options) ==
    LET extension == IF options.extension.given THEN options.extension.value
                     ELSE <<"p", "n", "g">>
        fileName  == <<"g", "r", "a", "b", "-">> \o formatDate(options.timestamp)
                         \o <<"-">> \o formatTime(options.timestamp)
                         \o <<"-">> \o getModeLabel(options.mode)
        named     == IF options.target.given /\ options.target.value # <<>>
                       THEN LET sanitizedTarget == sanitizeFileName(options.target.value)
                            IN  IF sanitizedTarget # <<>>
                                  THEN fileName \o <<"-">> \o sanitizedTarget
                                  ELSE fileName
                       ELSE fileName
    IN  named \o <<".">> \o extension

CallGenerateFileName(options) ==
    /\ call = NoCall
    /\ call' = [fn |-> "generateFileName", options |-> options,
                out |-> generateFileName(options)]
    /\ UNCHANGED <<regionVars, captureVars, trigger, historyVars>>

NextNaming ==
    \/ \E name \in StringsUpTo(MaxLen) \cup NamesAtLimit : CallSanitizeFileName(name)
    \/ \E options \in FileNameOptions : CallGenerateFileName(options)

SpecNaming == Init /\ [][NextNaming]_vars

\* ------------------------------------------------------ the history store
MAX_HISTORY_ITEMS == 50

\* The image files the output folder may hold, by name; path.join puts the
\* folder before the name, in add's argument and in scanDirectory alike.
MaxFiles == 2

Files == 1..MaxFiles

\* A file of the folder that is no image.
OtherFile == 0

MaxCalls == 2

\* A HistoryItem: the file path and the timestamp in ticks (the id plays no
\* part in what the store does).
HistoryItem(filePath, timestamp) == [filePath |-> filePath, timestamp |-> timestamp]

\* Items of earlier captures, whose files lie outside the folder scanned.
EarlierItems(n) == [i \in 1..n |-> HistoryItem(-i, 0)]

\* What history.json may hold when the store is constructed: nothing, or what
\* save() wrote in an earlier run, up to a full history.
StoredHistories ==
    {EarlierItems(n) : n \in {0, MAX_HISTORY_ITEMS - 1, MAX_HISTORY_ITEMS}}

\* getHistoryStore() on its first call: the constructor reads history.json.
GetHistoryStore(stored) ==
    /\ ~instance
    /\ instance' = TRUE
    /\ items' = stored
    /\ historyFile' = stored
    /\ UNCHANGED <<historyCalls, regionVars, captureVars, trigger, call>>

\* items.slice(0, MAX_HISTORY_ITEMS) when there are more.
Trimmed(its) ==
    IF Len(its) > MAX_HISTORY_ITEMS THEN SubSeq(its, 1, MAX_HISTORY_ITEMS) ELSE its

\* The items after add(filePath) at clock reading t: unshift, then the limit.
add(filePath, t) == Trimmed(<<HistoryItem(filePath, t)>> \o items)

\* save(): writes the items; a failure is logged and swallowed.
Saved(its, saveOk) == IF saveOk THEN its ELSE historyFile

\* HistoryStore.add(filePath).
HistoryAdd(filePath, t, saveOk) ==
    /\ instance
    /\ historyCalls < MaxCalls
    /\ historyCalls' = historyCalls + 1
    /\ t >= now
    /\ now' = t
    /\ items' = add(filePath, t)
    /\ historyFile' = Saved(items', saveOk)
    /\ UNCHANGED <<instance, regionVars, trigger, call>>
    /\ UNCHANGED <<cpc, req, events, metadata, result, exportOutcome, diskOutcome,
                   clipOutcome, captureError, captureErrorCode, enumerated,
                   notifications, attempts, files>>

\* fs.readdirSync(directoryPath) for a folder holding the image files of
\* `present', in order of their names, after a file that is no image.
Readdir(present) ==
    LET RECURSIVE Listing(_)
        Listing(n) == IF n = 0 THEN << >>
                      ELSE Listing(n - 1) \o (IF n \in present THEN <<n>> ELSE << >>)
    IN  <<OtherFile>> \o Listing(MaxFiles)

\* The filter of scanDirectory: names ending in .png, .jpg or .jpeg.
IsImage(file) == file \in Files

\* stats.birthtime of a file of the folder, in ticks.
Birthtime(file) == file % (MaxTime + 1)

\* images.forEach of scanDirectory over the files not yet visited: a file not
\* yet among the items is pushed with its birthtime; fs.statSync throws for a
\* file of `broken' (a dangling link, a file removed since readdirSync), which
\* ends the loop.
RECURSIVE ForEachImage(_, _, _, _)
ForEachImage(its, newItemsCount, images, broken) ==
    IF images = << >>
      THEN [items |-> its, newItemsCount |-> newItemsCount, thrown |-> FALSE]
      ELSE LET fullPath == Head(images)
               exists == \E i \in 1..Len(its) : its[i].filePath = fullPath
           IN  IF exists THEN ForEachImage(its, newItemsCount, Tail(images), broken)
               ELSE IF fullPath \in broken
                 THEN [items |-> its, newItemsCount |-> newItemsCount, thrown |-> TRUE]
               ELSE ForEachImage(Append(its, HistoryItem(fullPath, Birthtime(fullPath))),
                                 newItemsCount + 1, Tail(images), broken)

\* items.sort by timestamp, new to old; Array.prototype.sort is stable.
RECURSIVE SortNewToOld(_, _)
SortNewToOld(its, newest) ==
    IF newest < 0 THEN << >>
    ELSE SelectSeq(its, LAMBDA item : item.timestamp = newest)
             \o SortNewToOld(its, newest - 1)

\* HistoryStore.scanDirectory(directoryPath): nothing when the folder does not
\* exist; otherwise the loop, then sort, trim and (with new items) save, all
\* three skipped when the loop threw: the catch only logs.
HistoryScanDirectory(folderExists, present, broken, saveOk) ==
    /\ instance
    /\ historyCalls < MaxCalls
    /\ historyCalls' = historyCalls + 1
    /\ IF ~folderExists
         THEN UNCHANGED <<items, historyFile>>
         ELSE LET images == SelectSeq(Readdir(present), IsImage)
                  loop == ForEachImage(items, 0, images, broken)
              IN  IF loop.thrown
                    THEN /\ items' = loop.items
                         /\ UNCHANGED historyFile
                    ELSE /\ items' = Trimmed(SortNewToOld(loop.items, MaxTime))
                         /\ historyFile' = IF loop.newItemsCount > 0
                                             THEN Saved(items', saveOk)
                                             ELSE historyFile
    /\ UNCHANGED <<instance, regionVars, captureVars, trigger, call>>

NextHistory ==
    \/ \E stored \in StoredHistories : GetHistoryStore(stored)
    \/ \E filePath \in Files, t \in 0..MaxTime, saveOk \in BOOLEAN :
           HistoryAdd(filePath, t, saveOk)
    \/ \E folderExists \in BOOLEAN, present \in SUBSET Files, saveOk \in BOOLEAN :
           \E broken \in SUBSET present :
               HistoryScanDirectory(folderExists, present, broken, saveOk)

SpecHistory == Init /\ [][NextHistory]_vars

\* =================================================================== claims
ClipboardError == "clipboard write failed"

ExportEvents == {"ensureDir", "writeFile", "clipboard"}

Positions(e) == {i \in 1..Len(events) : events[i] = e}

Occurs(e) == Positions(e) # {}

Before(a, b) == \A i \in Positions(a), j \in Positions(b) : i < j

\* C1: whenever exportCapture returns normally the result has a file path or
\* copiedToClipboard = TRUE, and whenever it ends with neither it has thrown:
\* the caller sees an error and no result.
C1_ExportResultHasAnOutput ==
    /\ exportOutcome = "returned" =>
          (result.filePath # NoPath \/ result.copiedToClipboard)
    /\ (cpc = "done" /\ Occurs("assemble")) =>
          /\ exportOutcome \in {"returned", "thrown"}
          /\ exportOutcome = "thrown" <=>
                (result.filePath = NoPath /\ ~result.copiedToClipboard)
          /\ exportOutcome = "thrown" => captureError # NoId

C1_Witness ==
    /\ exportOutcome = "returned"
    /\ diskOutcome = "failed"
    /\ result.filePath = NoPath
    /\ result.copiedToClipboard

\* C2: with saveToDisk and copyToClipboard both on, a failed disk branch does
\* not end the call: the clipboard write is attempted after it, and when that
\* write succeeds the call returns filePath undefined, copiedToClipboard TRUE
\* and no error.
C2_DiskFailureStillCopies ==
    (cpc = "done" /\ req.saveToDisk /\ req.copyToClipboard /\ diskOutcome = "failed") =>
        /\ Occurs("clipboard")
        /\ Before("ensureDir", "clipboard")
        /\ Before("writeFile", "clipboard")
        /\ clipOutcome = "copied" =>
              /\ exportOutcome = "returned"
              /\ result.filePath = NoPath
              /\ result.copiedToClipboard
              /\ captureError = NoId

C2_Witness ==
    /\ cpc = "done"
    /\ req.saveToDisk /\ req.copyToClipboard
    /\ diskOutcome = "failed" /\ clipOutcome = "copied"
    /\ exportOutcome = "returned"
    /\ events = <<"grab", "assemble", "ensureDir", "writeFile", "clipboard">>

\* C3: when the disk save failed and the clipboard write fails too, the call
\* returns no result: the clipboard error is propagated to the caller.
C3_BothFailuresPropagate ==
    (diskOutcome = "failed" /\ clipOutcome = "failed") =>
        /\ exportOutcome = "thrown"
        /\ captureError = ClipboardError
        /\ cpc = "done"

C3_Witness ==
    /\ diskOutcome = "failed" /\ clipOutcome = "failed"
    /\ exportOutcome = "thrown"

\* C4: a clipboard failure is swallowed exactly when the disk save of the same
\* call succeeded (the call then returns with the file path and
\* copiedToClipboard FALSE); with no file saved, disk disabled or failed, the
\* clipboard error is propagated.
C4_ClipboardFailureSwallowedIffSaved ==
    clipOutcome = "failed" =>
        IF diskOutcome = "saved"
          THEN /\ exportOutcome # "thrown"
               /\ captureError # ClipboardError
               /\ result.filePath # NoPath
               /\ ~result.copiedToClipboard
               /\ cpc = "done" => exportOutcome = "returned"
          ELSE /\ exportOutcome = "thrown"
               /\ captureError = ClipboardError

C4_Witness ==
    /\ clipOutcome = "failed" /\ diskOutcome = "saved"
    /\ exportOutcome = "returned"
    /\ result.filePath # NoPath

\* C10: within one capture attempt the grab comes before the crop, the crop
\* before the metadata assembly, the assembly before every export action; an
\* export action happens only after grab and assembly (and the crop, in region
\* mode), and never in an attempt whose grab or crop failed.
C10_PipelineOrder ==
    /\ Before("grab", "crop")
    /\ Before("crop", "assemble")
    /\ Before("grab", "assemble")
    /\ \A e \in ExportEvents : Before("assemble", e)
    /\ Occurs("crop") => Occurs("grab")
    /\ Occurs("assemble") => (Occurs("grab") /\ (req.mode = "region" => Occurs("crop")))
    /\ (\E e \in ExportEvents : Occurs(e)) => (Occurs("assemble") /\ metadata # NoMetadata)
    /\ captureError \in {"Display not found", "Source not found", "crop failed"} =>
          /\ \A e \in ExportEvents : ~Occurs(e)
          /\ exportOutcome = "none"
          /\ result = NoResult

C10_Witness ==
    /\ cpc = "done"
    /\ req.mode = "region"
    /\ events = <<"grab", "crop", "assemble", "ensureDir", "writeFile", "clipboard">>

\* The running call ended inside capture(): performCapture caught an error
\* before exportCapture was called.
CaptureRejected == cpc = "done" /\ captureError # NoId /\ exportOutcome = "none"

\* C11: a region-mode request whose region is missing or has a non-positive
\* width or height is rejected with INVALID_REQUEST before any grab: no
\* display enumeration, no pixel grab, no metadata and no export.
C11_InvalidRegionRejected ==
    (cpc = "done" /\ req.mode = "region"
        /\ (~req.hasRegion \/ req.region.width <= 0 \/ req.region.height <= 0)) =>
        /\ captureErrorCode = "INVALID_REQUEST"
        /\ events = << >>
        /\ metadata = NoMetadata
        /\ exportOutcome = "none"
        /\ result = NoResult

\* C12: a display-mode capture without displayId fails, and one whose
\* displayId is absent from the display enumeration at capture time fails
\* with SOURCE_NOT_FOUND; neither grabs an image, assembles metadata or
\* exports.
C12_MissingDisplayIsSourceNotFound ==
    (cpc = "done" /\ req.mode = "display") =>
        /\ req.displayId = NoId =>
              (CaptureRejected /\ events = << >> /\ metadata = NoMetadata)
        /\ (req.displayId # NoId /\ Occurs("enumerate") /\ req.displayId \notin enumerated) =>
              /\ CaptureRejected
              /\ captureErrorCode = "SOURCE_NOT_FOUND"
              /\ ~Occurs("grab")
              /\ metadata = NoMetadata
              /\ result = NoResult

\* C13: every error that leaves capture() (validation, enumeration, grab,
\* crop) carries a code of the taxonomy PERMISSION_DENIED, SOURCE_NOT_FOUND,
\* CAPTURE_FAILED, EXPORT_FAILED, INVALID_REQUEST, CANCELLED.
C13_OnlyTaxonomyErrorsLeaveCapture ==
    CaptureRejected =>
        captureErrorCode \in (CaptureErrorCode \ {"CLIPBOARD_FAILED"})

C15_SavedPathsAreDistinct ==
    \A f \in files, g \in files : f[1] = g[1] => f[2] = g[2]

\* Rectangle inner lies within rectangle outer.
Covers(outer, inner) ==
    /\ outer.x <= inner.x /\ inner.x + inner.width <= outer.x + outer.width
    /\ outer.y <= inner.y /\ inner.y + inner.height <= outer.y + outer.height

\* C16: for a non-empty set of displays getVirtualScreenBounds returns the
\* least rectangle that contains every display: it covers each display, and
\* each of its four edges lies on the edge of some display, so no smaller
\* rectangle covers them all.
C16_VirtualScreenIsMinimalCover ==
    (call.fn = "getVirtualScreenBounds" /\ call.displays # {}) =>
        /\ \A d \in call.displays : Covers(call.out, d)
        /\ \E d \in call.displays : d.x = call.out.x
        /\ \E d \in call.displays : d.y = call.out.y
        /\ \E d \in call.displays : d.x + d.width = call.out.x + call.out.width
        /\ \E d \in call.displays : d.y + d.height = call.out.y + call.out.height

\* Two displays with disjoint bounds, side by side with a gap and different
\* heights.
C16_Witness ==
    /\ call.fn = "getVirtualScreenBounds"
    /\ call.displays = { [x |-> -20, y |-> 0, width |-> 10, height |-> 10],
                         [x |-> 20, y |-> -10, width |-> 20, height |-> 30] }
    /\ call.out = [x |-> -20, y |-> -10, width |-> 60, height |-> 30]

\* The components of a rectangle.
Components == {"x", "y", "width", "height"}

\* C17 as stated: for every rectangle and every scale factor s > 0,
\* normalizeToImageCoords and then normalizeToScreenCoords reproduce the
\* rectangle within 1 unit in each of x, y, width and height.
C17_RoundTripWithinOneUnit ==
    call.fn = "normalizeToScreenCoords" =>
        \A c \in Components : Abs(call.out[c] - call.bounds[c]) <= 1

\* C17, amended: for every rectangle and every scale factor s > 0 the round
\* trip reproduces the rectangle within 1/2 + 1/(2s) units in each component,
\* which is within 1 unit whenever s >= 1.  With s = num/den the bound
\* |out - r| <= 1/2 + den/(2 num) is 2 num |out - r| <= num + den.
C17_RoundTripWithinRoundingError ==
    call.fn = "normalizeToScreenCoords" =>
        /\ \A c \in Components :
               2 * call.scaleFactor.num * Abs(call.out[c] - call.bounds[c])
                   <= call.scaleFactor.num + call.scaleFactor.den
        /\ call.scaleFactor.num >= call.scaleFactor.den =>
               \A c \in Components : Abs(call.out[c] - call.bounds[c]) <= 1

\* A rectangle whose image at scale 1.5 was rounded in every component
\* (1.5 -> 2, -4.5 -> -4, 4.5 -> 5, 13.5 -> 14) and came back unchanged.
C17_Witness ==
    /\ call.fn = "normalizeToScreenCoords"
    /\ call.scaleFactor = [num |-> 3, den |-> 2]
    /\ call.bounds = [x |-> 1, y |-> -3, width |-> 3, height |-> 9]
    /\ call.image = [x |-> 2, y |-> -4, width |-> 5, height |-> 14]
    /\ call.out = call.bounds

\* C18: whatever the region (inside, partly outside or wholly outside the
\* display), the rectangle clampRegionToDisplay returns has its right edge
\* x + width at or before the display's right edge, its bottom edge
\* y + height at or before the display's bottom edge, and its origin within
\* the display's bounds.
C18_ClampedRegionEndsInsideDisplay ==
    call.fn = "clampRegionToDisplay" =>
        LET d == call.displayBounds
            out == call.out
        IN  /\ out.x + out.width <= d.x + d.width
            /\ out.y + out.height <= d.y + d.height
            /\ d.x <= out.x /\ out.x <= d.x + d.width
            /\ d.y <= out.y /\ out.y <= d.y + d.height

\* A region that starts inside the display and runs past its right and
\* bottom edges is cut at both.
C18_Witness ==
    /\ call.fn = "clampRegionToDisplay"
    /\ call.displayBounds = [x |-> 0, y |-> 0, width |-> 20, height |-> 10]
    /\ call.region = [x |-> 15, y |-> 5, width |-> 10, height |-> 40]
    /\ call.out = [x |-> 15, y |-> 5, width |-> 5, height |-> 5]

\* The characters of a string.
CharsOf(str) == {str[i] : i \in 1..Len(str)}

\* C19 as stated: the result of sanitizeFileName holds none of the characters
\* < > : " / \ | ? * and no control character, and it is not empty whenever
\* the input had a legal character.
C19_SanitizedIsLegalAndNonEmpty ==
    call.fn = "sanitizeFileName" =>
        /\ CharsOf(call.out) \cap IllegalChars = {}
        /\ CharsOf(call.name) \ IllegalChars # {} => call.out # <<>>

\* C19, amended: the result of sanitizeFileName holds none of the characters
\* < > : " / \ | ? * and no control character U+0000 to U+001F, and it is not
\* empty whenever the input had a character that is none of those, not white
\* space and not a dash.
C19_SanitizedIsLegalAndKeepsNameChars ==
    call.fn = "sanitizeFileName" =>
        /\ CharsOf(call.out) \cap IllegalChars = {}
        /\ CharsOf(call.name) \ (IllegalChars \cup WhiteSpace \cup {"-"}) # {}
               => call.out # <<>>

\* An illegal character is removed, the space becomes a dash, the dash is
\* trimmed and the letter stays.
C19_Witness ==
    /\ call.fn = "sanitizeFileName"
    /\ call.name = <<"<", " ", "a">>
    /\ call.out = <<"a">>

\* The decimal digits of n in a field of the given width.
RECURSIVE Power10(_)
Power10(k) == IF k = 0 THEN 1 ELSE 10 * Power10(k - 1)

Digits(n, width) ==
    [i \in 1..width |-> DigitChars[((n \div Power10(width - i)) % 10) + 1]]

\* The four mode labels of the naming format.
ModeLabels ==
    [mode \in CaptureModes |->
        CASE mode = "full-screen" -> <<"f", "u", "l", "l", "s", "c", "r", "e", "e", "n">>
          [] mode = "display"     -> <<"d", "i", "s", "p", "l", "a", "y">>
          [] mode = "window"      -> <<"w", "i", "n", "d", "o", "w">>
          [] mode = "region"      -> <<"r", "e", "g", "i", "o", "n">>]

\* "grab-" YYYYMMDD "-" HHmmss "-" modeLabel ["-" sanitized target] ".png" of
\* a call, the date and time being those of the second `seconds' after the
\* start of January 2026 (the first of January is its day 1).
NameAt(seconds) ==
    LET o == call.options
        sanitized == IF o.target.given THEN sanitizeFileName(o.target.value) ELSE <<>>
    IN  <<"g", "r", "a", "b", "-">>
            \o Digits(20260100 + (seconds \div 86400), 8) \o <<"-">>
            \o Digits(((seconds % 86400) \div 3600) * 10000
                          + ((seconds % 3600) \div 60) * 100 + (seconds % 60), 6)
            \o <<"-">> \o ModeLabels[o.mode]
            \o (IF sanitized # <<>> THEN <<"-">> \o sanitized ELSE <<>>)
            \o <<".", "p", "n", "g">>

\* The seconds since the start of day 0 of the month of a Date, in UTC.
UTCSeconds(date) ==
    ((date.date * 24 + date.hours) * 60 + date.minutes) * 60 + date.seconds

\* generateFileName was called with a mode, a timestamp and maybe a target.
NamedWithDefaults == call.fn = "generateFileName" /\ ~call.options.extension.given

Settled(s) == promise[s].state \in {"null", "region"}

\* C5: a second region trigger while a session is pending cancels that
\* session: once its overlay is gone the replaced session's promise is settled
\* (with null, unless it had its region already), and every session is settled
\* only by an event of its own overlay, so the second one stays pending until
\* its own result or cancel.
C5_SecondTriggerCancelsFirst ==
    \A s \in Sessions :
        /\ (s < nsessions /\ win[s] = "destroyed") => Settled(s)
        /\ Settled(s) => promise[s].by = s

\* C6: at most one session is pending and at most one overlay is open, and
\* the module's overlayWindow is that open overlay, so closeRegionSelector
\* closes it.
C6_SingleTrackedOverlay ==
    /\ Cardinality({s \in Sessions : promise[s].state = "pending"}) <= 1
    /\ Cardinality({w \in Sessions : win[w] = "open"}) <= 1
    /\ \A w \in Sessions : win[w] = "open" => overlayWindow = w

\* C7: every promise of showRegionSelector is settled exactly once: resolve is
\* called at most once per session, and a session whose overlay is destroyed
\* is not left pending.
C7_SettledExactlyOnce ==
    \A s \in Sessions :
        /\ resolveCalls[s] <= 1
        /\ Settled(s) => resolveCalls[s] = 1
        /\ win[s] = "destroyed" => Settled(s)

\* The step in which the renderer of w ends a drag with mouse up: isSelecting
\* falls, the overlay stays open, and no cancel is sent (the other way a drag
\* ends without the window closing).
MouseUpStep(w) ==
    /\ win[w] = "open" /\ win'[w] = "open"
    /\ rend[w].isSelecting /\ ~rend'[w].isSelecting
    /\ ipc'[w] # Append(ipc[w], CancelMsg)

\* C8: a drag ending with width < 10 or height < 10 sends neither
\* REGION_SELECT_DONE nor REGION_SELECT_CANCEL and settles nothing; the overlay
\* stays open and is armed again exactly as a fresh overlay; every
\* REGION_SELECT_DONE in flight and every resolved region is at least 10 x 10.
C8_SmallDragIsDiscarded ==
    /\ [][\A w \in Sessions :
            (MouseUpStep(w) /\ (Abs(rend[w].currentX - rend[w].startX) < 10
                                \/ Abs(rend[w].currentY - rend[w].startY) < 10)) =>
                /\ ipc' = ipc
                /\ promise' = promise
                /\ resolveCalls' = resolveCalls
                /\ selectionResolver' = selectionResolver
                /\ overlayWindow' = overlayWindow
                /\ win' = win
                /\ rend'[w] = InitRend]_vars
    /\ [](\A w \in Sessions :
            /\ \A i \in 1..Len(ipc[w]) :
                  ipc[w][i].type = "done" =>
                      (ipc[w][i].region.width >= 10 /\ ipc[w][i].region.height >= 10)
            /\ promise[w].state = "region" =>
                  (promise[w].region.width >= 10 /\ promise[w].region.height >= 10))

\* A too small drag was dropped on overlay 1, and a later drag on the same
\* overlay resolved the session.
C8_Witness ==
    /\ discarded[1]
    /\ promise[1].state = "region"
    /\ promise[1].by = 1
    /\ resolveCalls[1] = 1

\* C9: when the cancel of overlay w (secondary button, Escape) is handled, or
\* overlay w is destroyed, while session w has no result yet, the session ends
\* cancelled: its promise is null and its overlay is no longer open; a promise
\* resolved to null never gets a region afterwards.
C9_CancelEndsSession ==
    [][\A w \in Sessions :
          /\ ( /\ promise[w].state = "pending"
               /\ \/ \E sync \in BOOLEAN : RegionSelectCancel(w, sync)
                  \/ OverlayDestroyed(w)
                  \/ OverlayClosed(w) )
             => (promise'[w].state = "null" /\ win'[w] # "open")
          /\ promise[w].state = "null" => promise'[w].state = "null"]_vars

\* The selection of overlay coordinates in virtual-screen coordinates: the
\* overlay window lies at the top left corner of all displays.
OnVirtualScreen(sel) ==
    [x |-> sel.x + MinOf({d.bounds.x : d \in Displays}),
     y |-> sel.y + MinOf({d.bounds.y : d \in Displays}),
     width |-> sel.width, height |-> sel.height]

\* Display d contains the centre of rectangle r (twice the centre is compared
\* with twice the edges, a centre may lie at half a unit).
ContainsCentre(d, r) ==
    /\ 2 * d.bounds.x <= 2 * r.x + r.width
    /\ 2 * r.x + r.width < 2 * (d.bounds.x + d.bounds.width)
    /\ 2 * d.bounds.y <= 2 * r.y + r.height
    /\ 2 * r.y + r.height < 2 * (d.bounds.y + d.bounds.height)

\* C21: when the REGION_SELECT_DONE of a selection is handled while the
\* session of its overlay awaits the result, the session resolves with the
\* display that contains the centre of the selected rectangle on the virtual
\* screen and with the rectangle relative to that display: x and y less the
\* display's origin, width and height unchanged.
C21_ResolvedRegionIsDisplayRelative ==
    [][\A w \in Sessions :
          ( /\ selectionResolver = w
            /\ \E sync \in BOOLEAN : RegionSelectDone(w, sync) )
          => LET abs == OnVirtualScreen(Head(ipc[w]).region)
             IN  /\ promise'[w].state = "region"
                 /\ \E d \in Displays :
                        /\ ContainsCentre(d, abs)
                        /\ promise'[w].displayId = d.id
                        /\ promise'[w].region =
                               [x |-> abs.x - d.bounds.x, y |-> abs.y - d.bounds.y,
                                width |-> abs.width, height |-> abs.height]]_vars

\* A drag from (9, 0) to (40, 10) on the overlay, which starts at (-20, 0):
\* its centre (4.5, 5) lies on display 1, whose origin is (0, 0).
C21_Witness ==
    /\ promise[1].state = "region"
    /\ promise[1].displayId = "1"
    /\ promise[1].region = [x |-> -11, y |-> 0, width |-> 31, height |-> 10]

\* The bounds of the display with the given id.
BoundsOfDisplay(id) == (CHOOSE d \in Displays : d.id = id).bounds

\* C22: the region a session resolves with, which capture() crops with, lies
\* within the display it is assigned to: x >= 0, y >= 0, x + width and
\* y + height at most the display's width and height.
C22_ResolvedRegionInsideDisplay ==
    \A w \in Sessions :
        promise[w].state = "region" =>
            LET r == promise[w].region
                b == BoundsOfDisplay(promise[w].displayId)
            IN  /\ r.x >= 0 /\ r.y >= 0
                /\ r.x + r.width <= b.width
                /\ r.y + r.height <= b.height

\* C23: with no display enumerated the virtual screen bounds are those of one
\* made-up display of size (0, 0): a rectangle with finite components, of
\* width 0 and height 0, from either getVirtualScreenBounds.
C23_NoDisplaysGiveEmptyFiniteBounds ==
    /\ (call.fn = "getVirtualScreenBounds" /\ call.displays = {}) =>
           (call.out.width = 0 /\ call.out.height = 0)
    /\ (call.fn = "regionOverlay.getVirtualScreenBounds" /\ call.displays = {}) =>
           \A c \in Components : call.out[c].inf = 0

\* C24: the result of sanitizeFileName has no white space and no two dashes
\* in a row, neither starts nor ends with a dash, and has at most 100
\* characters, for inputs beyond 100 characters too.
C24_SanitizedIsTrimmedAndShort ==
    call.fn = "sanitizeFileName" =>
        LET out == call.out
        IN  /\ CharsOf(out) \cap WhiteSpace = {}
            /\ \A i \in 1..(Len(out) - 1) : ~(out[i] = "-" /\ out[i + 1] = "-")
            /\ out # <<>> => (out[1] # "-" /\ out[Len(out)] # "-")
            /\ Len(out) <= 100

\* An event of overlay w is handled: its REGION_SELECT_DONE, its
\* REGION_SELECT_CANCEL or its 'closed' event.
EventOf(w) ==
    \/ \E sync \in BOOLEAN : RegionSelectDone(w, sync)
    \/ \E sync \in BOOLEAN : RegionSelectCancel(w, sync)
    \/ OverlayClosed(w)
    \/ OverlayDestroyed(w)

\* C25: an event of an earlier overlay, replaced or finished, never settles
\* the promise of a later session and changes neither the tracked overlay
\* window nor the display id of the later session; every session is settled
\* by an event of its own overlay.
C25_StaleEventsLeaveLaterSessions ==
    [][\A w \in Sessions :
          (w < nsessions /\ EventOf(w)) =>
              /\ \A s \in Sessions : s > w => promise'[s] = promise[s]
              /\ overlayWindow' = overlayWindow
              /\ currentDisplayId' = currentDisplayId]_vars

C27_SavedNameIsMetadataFileName ==
    diskOutcome = "saved" => result.filePath = metadata.fileName

ExportError == "Export failed: neither disk save nor clipboard copy succeeded"

\* C28: exportCapture called with saveToDisk and copyToClipboard both off
\* never returns a result: it ends by throwing the export error.
C28_NoOutputEnabledAlwaysFails ==
    (~req.saveToDisk /\ ~req.copyToClipboard) =>
        /\ exportOutcome # "returned"
        /\ (cpc = "done" /\ Occurs("assemble")) =>
              /\ exportOutcome = "thrown"
              /\ captureError = ExportError
              /\ result = NoResult

C28_Witness ==
    /\ ~req.saveToDisk /\ ~req.copyToClipboard
    /\ cpc = "done"
    /\ events = <<"grab", "assemble">>
    /\ exportOutcome = "thrown"
    /\ captureError = ExportError

\* C29: exportCapture leaves a disabled output alone. With saveToDisk off
\* no directory is created and no file is written, with copyToClipboard off
\* the clipboard is not written, whether the other branch is off, succeeds or
\* fails.
C29_DisabledOutputUntouched ==
    /\ ~req.saveToDisk =>
          /\ ~Occurs("ensureDir") /\ ~Occurs("writeFile")
          /\ diskOutcome = "skipped"
          /\ result.filePath = NoPath
    /\ ~req.copyToClipboard =>
          /\ ~Occurs("clipboard")
          /\ clipOutcome = "skipped"
          /\ ~result.copiedToClipboard

\* The disk branch failed at the write and the clipboard, which is off, was
\* left alone: the call ends with the export error.
C29_Witness ==
    /\ req.saveToDisk /\ ~req.copyToClipboard
    /\ cpc = "done"
    /\ diskOutcome = "failed"
    /\ events = <<"grab", "assemble", "ensureDir", "writeFile">>
    /\ exportOutcome = "thrown"

\* How many items the list holds for a file path.
ItemsFor(its, filePath) ==
    Cardinality({i \in 1..Len(its) : its[i].filePath = filePath})

\* C30: after every add and scanDirectory the history holds at most 50
\* items; right after add(p) the item of p is the first of the list; and
\* scanDirectory adds no second item for a file path: a path with items
\* keeps their number at most, a path without gets at most one.
C30_HistoryBoundedAndUnique ==
    [][ /\ Len(items') <= MAX_HISTORY_ITEMS
        /\ \A filePath \in Files :
              (\E t \in 0..MaxTime, saveOk \in BOOLEAN : HistoryAdd(filePath, t, saveOk))
                  => (items' # << >> /\ items'[1].filePath = filePath)
        /\ (\E folderExists \in BOOLEAN, present \in SUBSET Files, saveOk \in BOOLEAN :
               \E broken \in SUBSET present :
                   HistoryScanDirectory(folderExists, present, broken, saveOk))
              => \A filePath \in Files :
                     \/ ItemsFor(items', filePath) <= ItemsFor(items, filePath)
                     \/ ItemsFor(items', filePath) = 1 ]_vars

====
